---- MODULE Spec2Model ----
(***************************************************************************)
(* State-machine model of the AnkerCloud monitoring backend:               *)
(*   - incident acknowledge / resolve   (routes/alerts.ts)                 *)
(*   - metric ingestion                 (routes/ingest.ts)                 *)
(*   - the live feed over Redis streams (routes/websocket.ts, utils/redis) *)
(* Every await of a handler is an interleaving point, so each handler is   *)
(* a small process whose position is kept in a pc field.                   *)
(***************************************************************************)
EXTENDS Integers, Sequences, FiniteSets, TLC

VARIABLES
    now,               \* the wall clock (NOW() / new Date())
    incidents,         \* ankercloud.incidents, committed rows
    incident_history,  \* ankercloud.incident_history, committed rows in append order
    call,              \* the acknowledge / resolve requests in flight
    resources,         \* ankercloud.resources: status and last_seen_at
    servers,           \* ankercloud.servers: agent_last_seen
    metrics,           \* server_metrics, website_metrics, network_metrics rows
    streams,           \* the Redis streams metrics:<type>:<id>
    req,               \* the ingest requests in flight
    answered,          \* the ingest request answered last: its key, answer, effects
    redisq,            \* per API instance: commands sent on its Redis connection
    replies,           \* per API instance: XREAD replies not yet handled
    ws,                \* the websocket connections: the handler's closure
    sent,              \* per websocket connection: the metric messages sent
    latest,            \* the reply to the last POST /metrics/latest
    out,               \* the websocket message handled last and what it was answered
    realtime,          \* the browser's RealtimeConnection object and its sockets
    pool,              \* the pg pool: its idle clients
    tx                 \* the calls of the transaction helper in flight

incVars == <<incidents, incident_history, call>>
dbVars == <<resources, servers, metrics>>
redisVars == <<streams, redisq, replies>>
feedVars == <<ws, sent>>
queryVars == <<latest>>
outVars == <<out>>
helperVars == <<realtime, pool, tx>>
serverVars == <<resources, servers, metrics, streams, req, answered, redisq, replies,
                ws, sent, latest, out>>
ingVars == <<resources, servers, metrics, streams, req, answered, redisq, replies,
             ws, sent, latest, out, realtime, pool, tx>>
vars == <<now, incidents, incident_history, call, resources, servers,
          metrics, streams, req, answered, redisq, replies, ws, sent, latest,
          out, realtime, pool, tx>>

\* ------------------------------------------------------------------ bounds
MaxTime == 1           \* the clock runs 0..MaxTime
MaxHistory == 3        \* incident transactions started in one behaviour

\* SQL NULL / JS undefined for text and timestamp columns
NULL == <<>>

\* ------------------------------------------------------------- the clock
ClockTick ==
    /\ now < MaxTime
    /\ now' = now + 1

\* ============================================================ incidents
Users == {"u1", "u2"}
IncidentIds == {"i1"}
Callers == {"a", "b"}
NoteTexts == {<<"n1">>}

\* alert_policies.user_id of the policy an incident belongs to
PolicyOwner(i) == "u1"

\* ankercloud.alert_policies: the policy the incidents belong to
AlertPolicies ==
    {[id |-> "p1", user_id |-> "u1", resource_id |-> "rs",
      metric_name |-> "cpuUsagePercent", condition |-> "gt", threshold |-> 90,
      duration_seconds |-> 0, is_active |-> TRUE]}

\* a row of ankercloud.incidents as created: state DEFAULT 'active'
NewIncident ==
    [alert_policy_id |-> "p1", resource_id |-> "rs", triggered_value |-> NULL,
     state |-> "active", resolved_at |-> NULL, acknowledged_at |-> NULL,
     acknowledged_by |-> NULL, notes |-> NULL]

IdleCall ==
    [pc |-> "idle", op |-> "none", user |-> "none", id |-> "none",
     notes |-> NULL, code |-> 0, row |-> NULL, hist |-> <<>>]

\* notes = COALESCE(notes || E'\n' || $n, $n); || yields NULL when an operand is
NotesUpdate(old, n) ==
    LET cat == IF old = NULL \/ n = NULL THEN NULL ELSE old \o n
    IN  IF cat # NULL THEN cat ELSE n

\* the ownership check without AND ap.user_id = $2
IncidentCheckAnyUser(i, u) == i \in IncidentIds

\* SELECT i.id ... JOIN alert_policies ap ... WHERE i.id = $1 AND ap.user_id = $2
IncidentCheck(i, u) == i \in IncidentIds /\ PolicyOwner(i) = u

\* the row lock an UPDATE takes and holds until COMMIT / ROLLBACK
HoldsLock(p, i) == call[p].id = i /\ call[p].pc \in {"insert", "commit"}

Started == Cardinality({p \in Callers : call[p].pc \notin {"idle", "done"}})

\* POST /incidents/:id/acknowledge and /resolve: authentication, then the
\* ownership check; 404 when the caller does not own the incident's policy.
\* A caller's previous reply stays readable until its next request starts.
CallStart(p, op, u, i, n) ==
    /\ call[p].pc \in {"idle", "done"}
    /\ Len(incident_history) + Started < MaxHistory
    /\ call' = [call EXCEPT ![p] =
          IF IncidentCheck(i, u)
          THEN [IdleCall EXCEPT !.pc = "update", !.op = op, !.user = u,
                                !.id = i, !.notes = n]
          ELSE [IdleCall EXCEPT !.pc = "done", !.op = op, !.user = u,
                                !.id = i, !.notes = n, !.code = 404]]
    /\ UNCHANGED <<now, incidents, incident_history, ingVars>>

\* the SET clause of the acknowledge UPDATE
AcknowledgeRow(old, u, n) ==
    [old EXCEPT !.state = "acknowledged", !.acknowledged_at = <<now>>,
                !.acknowledged_by = <<u>>, !.notes = NotesUpdate(old.notes, n)]

\* the SET clause of the resolve UPDATE
ResolveRow(old, n) ==
    [old EXCEPT !.state = "resolved", !.resolved_at = <<now>>,
                !.notes = NotesUpdate(old.notes, n)]

\* BEGIN, then UPDATE ankercloud.incidents ... WHERE id = $id inside the
\* transaction: waits for the row lock, reads the committed row, writes its own
TxUpdate(p) ==
    /\ call[p].pc = "update"
    /\ \A q \in Callers \ {p} : ~HoldsLock(q, call[p].id)
    /\ LET old == incidents[call[p].id]
           new == IF call[p].op = "acknowledge"
                  THEN AcknowledgeRow(old, call[p].user, call[p].notes)
                  ELSE ResolveRow(old, call[p].notes)
       IN  call' = [call EXCEPT ![p].pc = "insert", ![p].row = <<new>>]
    /\ UNCHANGED <<now, incidents, incident_history, ingVars>>

\* INSERT INTO ankercloud.incident_history (incident_id, action, performed_by, details)
TxInsert(p) ==
    /\ call[p].pc = "insert"
    /\ call' = [call EXCEPT ![p].pc = "commit",
                   ![p].hist = Append(@,
                       [incident_id |-> call[p].id,
                        action |-> IF call[p].op = "acknowledge"
                                   THEN "acknowledged" ELSE "resolved",
                        performed_by |-> call[p].user,
                        notes |-> call[p].notes])]
    /\ UNCHANGED <<now, incidents, incident_history, ingVars>>

\* what COMMIT makes visible: the transaction's row and its history rows
CommitRows(p) ==
    /\ incidents' = [incidents EXCEPT ![call[p].id] = call[p].row[1]]
    /\ incident_history' = incident_history \o call[p].hist

\* COMMIT succeeded; transaction() returns and the handler replies 200
TxCommit(p) ==
    /\ call[p].pc = "commit"
    /\ CommitRows(p)
    /\ call' = [call EXCEPT ![p].pc = "done", ![p].code = 200,
                            ![p].row = NULL, ![p].hist = <<>>]
    /\ UNCHANGED <<now, ingVars>>

\* a ROLLBACK that discards only the history insert (the UPDATE ran outside
\* the transaction's client)
RollbackKeepsUpdate(p) ==
    /\ incidents' = IF call[p].row = NULL THEN incidents
                    ELSE [incidents EXCEPT ![call[p].id] = call[p].row[1]]
    /\ incident_history' = incident_history

\* what ROLLBACK leaves of the transaction: nothing
RollbackRows(p) ==
    /\ incidents' = incidents
    /\ incident_history' = incident_history

\* a statement of the transaction (UPDATE, INSERT or COMMIT) throws: the catch
\* block issues ROLLBACK and rethrows; the framework answers 500
TxFail(p) ==
    /\ call[p].pc \in {"update", "insert", "commit"}
    /\ RollbackRows(p)
    /\ call' = [call EXCEPT ![p].pc = "done", ![p].code = 500,
                            ![p].row = NULL, ![p].hist = <<>>]
    /\ UNCHANGED <<now, ingVars>>

\* ============================================================ ingestion
MaxIngest == 2         \* samples stored in one behaviour
MaxStamp == 1          \* request timestamps are drawn from 0..MaxStamp

\* get_resource_status: "recent data (within 5 minutes)"; the clock counts minutes
FreshnessMinutes == 5

Instances == {"A", "B"}
Requests == {"q1", "q2"}
Kinds == {"server", "website", "network"}
Endpoints == Kinds \cup {"batch"}
ResourceIds == {"rs", "rw", "rn", "ro"}

\* resources.type and resources.user_id
ResourceType(r) ==
    CASE r = "rs" -> "server" [] r = "rw" -> "website"
      [] r = "rn" -> "network" [] OTHER -> "server"
ResourceOwner(r) == IF r = "ro" THEN "u2" ELSE "u1"

\* ankercloud.api_keys: the plaintext key each key_hash matches, its owner,
\* expires_at and is_active
ApiKeyRows ==
    {[key |-> "k_ok", user_id |-> "u1", expires_at |-> NULL, is_active |-> TRUE],
     [key |-> "k_exp", user_id |-> "u1", expires_at |-> <<0>>, is_active |-> TRUE],
     [key |-> "k_rev", user_id |-> "u1", expires_at |-> NULL, is_active |-> FALSE]}
ApiKeys == {k.key : k \in ApiKeyRows}
\* what a caller may put in X-API-Key: a stored key, an unknown one, nothing
HeaderKeys == ApiKeys \cup {"k_unknown", "none"}

\* the timestamps a request may carry; the first is already outside the
\* freshness window when the clock starts (a body may also omit the field)
Timestamps == {<<0 - FreshnessMinutes>>} \cup {<<t>> : t \in 0..MaxStamp}

NoMetrics == [cpu |-> 50, memory |-> 50, disk |-> 50, available |-> TRUE]
ServerMetrics ==
    {[NoMetrics EXCEPT !.cpu = c[1], !.memory = c[2], !.disk = c[3]] :
        c \in {<<50, 50, 50>>, <<50, 80, 50>>, <<95, 50, 50>>, <<101, 50, 50>>}}
CheckMetrics == {[NoMetrics EXCEPT !.available = a] : a \in BOOLEAN}

\* request bodies: wellFormed = FALSE stands for any shape violation (a field
\* missing or of the wrong type, resourceId not a uuid, timestamp not ISO 8601)
DefaultBody(r, ok) ==
    [resourceId |-> r, metrics |-> NoMetrics, timestamp |-> NULL, wellFormed |-> ok]

\* The bodies tried on an endpoint. For a resource of the endpoint's kind, every
\* payload and timestamp; for any other resource, where the handler stops before
\* it uses either, one body that parses and one that does not.
Bodies(endpoint) ==
    {[resourceId |-> r, metrics |-> m, timestamp |-> t, wellFormed |-> TRUE] :
        r \in {x \in ResourceIds : ResourceType(x) = endpoint},
        m \in IF endpoint = "server" THEN ServerMetrics ELSE CheckMetrics,
        t \in Timestamps \cup {NULL}}
    \cup {DefaultBody(r, ok) :
            r \in IF endpoint = "batch" THEN {"rs"} ELSE ResourceIds, ok \in BOOLEAN}

\* the API instance (one Node process, one Redis connection) serving a request
InstanceOf(p) == IF p = "q1" THEN "A" ELSE "B"

\* the websocket connections to GET /metrics; both reached instance B, so
\* their readers share its Redis connection with each other and with q2
Conns == {"c1", "c2"}
ConnInstance(c) == "B"

\* the handler's closure when the connection is made. streamReaders holds the
\* keys of the Map; timers are the interval timers that run, <<stream key, n>>
\* for the n-th one made for the key, the Map holding the last made of a key
NewSocket ==
    [pc |-> "open", authenticated |-> FALSE, userId |-> NULL,
     subscriptions |-> {}, streamReaders |-> {}, timers |-> {}]

\* a message a websocket client sends, and a control message the handler sends
Message(type, token, topic) == [type |-> type, token |-> token, topic |-> topic]
Control(type, text, topic) == [type |-> type, text |-> text, topic |-> topic]

\* no websocket message handled yet
NoOut == [conn |-> "none", msg |-> Message("none", "", NULL), replies |-> <<>>]

\* new RealtimeConnection(): no socket (ws, 0 for null), no timer pending, no
\* callbacks; sockets are the WebSocket objects made so far, user is the
\* application's last call
NewRealtime ==
    [ws |-> 0, reconnectTimer |-> FALSE, sockets |-> <<>>, subscriptions |-> {},
     user |-> "none"]

\* the clients of the pg pool, and a caller that is not inside transaction()
PoolClients == {"d1", "d2"}
IdleTransaction ==
    [pc |-> "idle", client |-> "none", error |-> "none", work |-> "none",
     rollback |-> FALSE, released |-> 0, outcome |-> "none"]

\* no POST /metrics/latest answered yet
NoReply == [code |-> 0, user |-> "none", resourceIds |-> {}, metrics |-> {}]

IdleReq ==
    [pc |-> "idle", kind |-> "none", key |-> "none", resourceId |-> "none",
     metrics |-> NoMetrics, timestamp |-> NULL, effects |-> {}]

\* validateApiKey without the expiration check
ValidateApiKeyNoExpiry(apiKey, dbOk) ==
    LET hit == {k \in ApiKeyRows : k.is_active /\ k.key = apiKey}
    IN  IF ~dbOk \/ hit = {} THEN NULL
        ELSE <<(CHOOSE k \in hit : TRUE).user_id>>

\* validateApiKey: the active rows whose hash matches; an expired match, no
\* match, or a throwing query (the SELECT, or the UPDATE that stamps last_used,
\* a column nothing reads) is invalid. NULL, or <<userId>>.
ValidateApiKey(apiKey, dbOk) ==
    LET hit == {k \in ApiKeyRows : k.is_active /\ k.key = apiKey}
    IN  IF ~dbOk \/ hit = {} THEN NULL
        ELSE LET row == CHOOSE k \in hit : TRUE
             IN  IF row.expires_at # NULL /\ row.expires_at[1] < now
                 THEN NULL ELSE <<row.user_id>>

\* a schema that forgets .max(100) on the percentages
SchemaParsesNoMax(endpoint, body) ==
    /\ body.wellFormed
    /\ endpoint = "server" =>
          \A v \in {body.metrics.cpu, body.metrics.memory, body.metrics.disk} : v >= 0

\* serverMetricsSchema / websiteMetricsSchema / networkMetricsSchema .parse
SchemaParses(endpoint, body) ==
    /\ body.wellFormed
    /\ endpoint = "server" =>
          \A v \in {body.metrics.cpu, body.metrics.memory, body.metrics.disk} :
              v >= 0 /\ v <= 100

\* SELECT id FROM resources WHERE id = $1 AND user_id = $2 AND type = $3
ResourceCheck(r, u, type) ==
    r \in ResourceIds /\ ResourceOwner(r) = u /\ ResourceType(r) = type

\* The handler up to and including the sample insert: the answer it gives
\* without going further (401, 400, 404, 500, the batch endpoint's 200), or 0.
\* fault names what throws: "auth" (a query inside validateApiKey), "store" (the
\* ownership query or the INSERT), "none".
EarlyAnswer(endpoint, key, body, fault) ==
    LET who == ValidateApiKey(key, fault # "auth")
    IN  IF key = "none" THEN 401
        ELSE IF who = NULL THEN 401
        ELSE IF endpoint = "batch" THEN (IF body.wellFormed THEN 200 ELSE 400)
        ELSE IF ~SchemaParses(endpoint, body) THEN 400
        ELSE IF fault = "store" THEN 500
        ELSE IF ~ResourceCheck(body.resourceId, who[1], endpoint) THEN 404
        ELSE 0

\* reply.code(code).send(...): the handler is over. What the request was and
\* did is kept until the next answer: the key of a request answered before it
\* stored anything, what threw ("db", "redis") if anything, the effects.
Answer(p, key, code, cause) ==
    /\ req' = [req EXCEPT ![p] = IdleReq]
    /\ answered' = [key |-> key, code |-> code, cause |-> cause,
                    effects |-> req[p].effects]

NoAnswer == [key |-> "none", code |-> 0, cause |-> "", effects |-> {}]

\* The requests tried on an endpoint: every body with the good key; one body
\* with every key, stored or not, with and without a throwing query.
IngestInputs(endpoint) ==
    {[key |-> "k_ok", body |-> b, fault |-> "none"] : b \in Bodies(endpoint)}
    \cup {[key |-> k, body |-> DefaultBody("rs", TRUE), fault |-> f] :
            k \in HeaderKeys, f \in {"none", "auth", "store"}}

\* the row INSERT INTO ankercloud.<kind>_metrics (time, resource_id, ...) adds;
\* n tells rows with equal columns apart, user is the caller the key resolved to
SampleRow(endpoint, user, body, timestamp) ==
    [n |-> Cardinality(metrics) + 1, table |-> endpoint, time |-> timestamp[1],
     resource_id |-> body.resourceId, values |-> body.metrics, user |-> user]

\* POST /server, /website, /network, /batch up to and including the sample
\* insert: answered at once, or going on with the sample stored. The tables read
\* on the way (api_keys, resources.user_id and type) do not change.
IngestStart(p, endpoint, key, body, fault) ==
    /\ req[p].pc = "idle"
    /\ Cardinality(metrics) < MaxIngest
    /\ LET answer == EarlyAnswer(endpoint, key, body, fault)
           user == ValidateApiKey(key, fault # "auth")[1]
           timestamp == IF body.timestamp # NULL THEN body.timestamp ELSE <<now>>
       IN  IF answer # 0
           THEN Answer(p, key, answer, IF answer = 500 THEN "db" ELSE "")
                /\ metrics' = metrics
           ELSE /\ metrics' = metrics \cup {SampleRow(endpoint, user, body, timestamp)}
                /\ req' = [req EXCEPT ![p] =
                     [pc |-> "update", kind |-> endpoint, key |-> key,
                      resourceId |-> body.resourceId, metrics |-> body.metrics,
                      timestamp |-> timestamp, effects |-> {"sample"}]]
                /\ answered' = answered
    /\ UNCHANGED <<now, incVars, queryVars, helperVars, outVars, feedVars, resources, servers, redisVars>>

\* a banding whose thresholds are inclusive
StatusOfRowInclusive(row) ==
    IF row.values.cpu >= 90 \/ row.values.memory >= 90 \/ row.values.disk >= 90
    THEN "critical"
    ELSE IF row.values.cpu >= 75 \/ row.values.memory >= 75 \/ row.values.disk >= 75
    THEN "warning" ELSE "online"

\* the banding of get_resource_status on one server_metrics row
StatusOfRow(row) ==
    IF row.values.cpu > 90 \/ row.values.memory > 90 \/ row.values.disk > 90
    THEN "critical"
    ELSE IF row.values.cpu > 75 \/ row.values.memory > 75 \/ row.values.disk > 75
    THEN "warning" ELSE "online"

\* get_resource_status(r): the statuses the function may return. It reads the
\* server_metrics row of r with the greatest time among those newer than
\* NOW() - 5 minutes (any one of them on a tie), 'unknown' when there is none.
ResourceStatuses(r) ==
    LET recent == {m \in metrics : m.table = "server" /\ m.resource_id = r
                                   /\ m.time > now - FreshnessMinutes}
        newest == {m \in recent : \A o \in recent : o.time <= m.time}
    IN  IF recent = {} THEN {"unknown"} ELSE {StatusOfRow(m) : m \in newest}

\* a website / network update that takes the status from the newest stored row
\* of the resource instead of the request's own isAvailable
NewStatusesFromNewest(p) ==
    IF req[p].kind = "server" THEN ResourceStatuses(req[p].resourceId)
    ELSE LET rows == {m \in metrics : m.table = req[p].kind
                                      /\ m.resource_id = req[p].resourceId}
             newest == {m \in rows : \A o \in rows : o.time <= m.time}
         IN  {IF m.values.available THEN "online" ELSE "offline" : m \in newest}

\* the status written by the request: server through get_resource_status,
\* website and network from the request's own isAvailable
NewStatuses(p) ==
    IF req[p].kind = "server" THEN ResourceStatuses(req[p].resourceId)
    ELSE {IF req[p].metrics.available THEN "online" ELSE "offline"}

\* UPDATE ankercloud.resources SET last_seen_at = $1, status = ... WHERE id = $2
IngestUpdate(p) ==
    /\ req[p].pc = "update"
    /\ \E st \in NewStatuses(p) :
          resources' = [resources EXCEPT ![req[p].resourceId] =
                           [status |-> st, last_seen_at |-> req[p].timestamp]]
    /\ req' = [req EXCEPT ![p].pc = "publish", ![p].effects = @ \cup {"health"}]
    /\ UNCHANGED <<now, incVars, queryVars, helperVars, outVars, feedVars, servers, metrics, redisVars, answered>>

\* the stream entry addToStream writes for the request
StreamFields(p) == [data |-> req[p].metrics, timestamp |-> req[p].timestamp]

Topic(type, id) == <<type, id>>
Topics == {Topic(ResourceType(r), r) : r \in ResourceIds \ {"ro"}}

\* POST /server only: UPDATE ankercloud.servers SET agent_last_seen = $1, ...
\* Then addToStream: client.xadd(stream, '*', ...fields) goes out on the
\* instance's one Redis connection, behind whatever it has not answered yet.
IngestPublish(p) ==
    /\ req[p].pc = "publish"
    /\ servers' = IF req[p].kind = "server"
                  THEN [servers EXCEPT ![req[p].resourceId] = req[p].timestamp]
                  ELSE servers
    /\ redisq' = [redisq EXCEPT ![InstanceOf(p)] =
          Append(@, [op |-> "xadd", topic |-> Topic(req[p].kind, req[p].resourceId),
                     fields |-> StreamFields(p), by |-> p,
                     blocked |-> FALSE, lastId |-> 0])]
    /\ req' = [req EXCEPT ![p].pc = "xadd"]
    /\ UNCHANGED <<now, incVars, queryVars, helperVars, outVars, feedVars, resources, metrics, streams, replies, answered>>

\* a database statement after the sample insert throws (the optional process /
\* service inserts, the resources or the servers update): the handler's catch
\* answers 500
IngestFail(p) ==
    /\ \/ req[p].pc = "update"
       \/ req[p].pc = "publish" /\ req[p].kind = "server"
    /\ Answer(p, "", 500, "db")
    /\ UNCHANGED <<now, incVars, queryVars, helperVars, outVars, feedVars, dbVars, redisVars>>

\* addToStream throws (Redis unreachable, retries exhausted): the same catch
PublishFail(p) ==
    /\ req[p].pc = "publish"
    /\ Answer(p, "", 500, "redis")
    /\ UNCHANGED <<now, incVars, queryVars, helperVars, outVars, feedVars, dbVars, redisVars>>

\* the blocked XREAD an entry added to a stream wakes on connection j, if any:
\* the command the connection is waiting on, when it waits on that stream
Woken(j, topic) ==
    /\ redisq[j] # <<>>
    /\ Head(redisq[j]).op = "xread"
    /\ Head(redisq[j]).blocked
    /\ Head(redisq[j]).topic = topic

\* what readFromStream gets back: the entries first..last of the stream
XreadReply(c, last) ==
    [conn |-> c.by, topic |-> c.topic, first |-> c.lastId + 1, last |-> last]

\* Redis executes the XADD at the head of an instance's connection and serves
\* the clients blocked on the stream; the promise resolves and the handler
\* ends: reply.send({ status: 'ok', timestamp })
RedisXadd(i) ==
    /\ redisq[i] # <<>>
    /\ Head(redisq[i]).op = "xadd"
    /\ LET c == Head(redisq[i])
           id == Len(streams[c.topic]) + 1
       IN  /\ streams' = [streams EXCEPT ![c.topic] = Append(@, c.fields)]
           /\ redisq' = [j \in Instances |->
                 IF j = i \/ Woken(j, c.topic) THEN Tail(redisq[j]) ELSE redisq[j]]
           /\ replies' = [j \in Instances |->
                 IF Woken(j, c.topic)
                 THEN Append(replies[j], XreadReply(Head(redisq[j]), id))
                 ELSE replies[j]]
           /\ req' = [req EXCEPT ![c.by] = IdleReq]
           /\ answered' = [key |-> "", code |-> 200, cause |-> "",
                           effects |-> req[c.by].effects \cup {"publish"}]
    /\ UNCHANGED <<now, incVars, queryVars, helperVars, outVars, feedVars, dbVars>>

InitIngestState ==
    /\ resources = [r \in ResourceIds |-> [status |-> "unknown", last_seen_at |-> NULL]]
    /\ servers = [r \in {x \in ResourceIds : ResourceType(x) = "server"} |-> NULL]
    /\ metrics = {}
    /\ streams = [t \in Topics |-> <<>>]
    /\ req = [p \in Requests |-> IdleReq]
    /\ answered = NoAnswer
    /\ redisq = [i \in Instances |-> <<>>]
    /\ replies = [i \in Instances |-> <<>>]
    /\ ws = [c \in Conns |-> NewSocket]
    /\ sent = [c \in Conns |-> <<>>]
    /\ latest = NoReply
    /\ out = NoOut
    /\ realtime = NewRealtime
    /\ pool = PoolClients
    /\ tx = [p \in Callers |-> IdleTransaction]

InitIngest ==
    /\ now = 0
    /\ incidents = [i \in IncidentIds |-> NewIncident]
    /\ incident_history = <<>>
    /\ call = [p \in Callers |-> IdleCall]
    /\ InitIngestState

NextIngest ==
    \/ ClockTick /\ UNCHANGED <<incVars, ingVars>>
    \/ \E p \in Requests, e \in Endpoints : \E x \in IngestInputs(e) :
          IngestStart(p, e, x.key, x.body, x.fault)
    \/ \E p \in Requests : IngestUpdate(p)
    \/ \E p \in Requests : IngestPublish(p)
    \/ \E p \in Requests : IngestFail(p)
    \/ \E p \in Requests : PublishFail(p)
    \/ \E i \in Instances : RedisXadd(i)

SpecIngest == InitIngest /\ [][NextIngest]_vars


\* ============================================================ live feed
MaxQueue == 2          \* commands waiting on one Redis connection

\* the tokens a client may send and what fastify.jwt.verify decodes them to
Tokens == {"t_u1", "t_u2", "t_bad"}
JwtVerify(token) ==
    CASE token = "t_u1" -> <<"u1">> [] token = "t_u2" -> <<"u2">> [] OTHER -> NULL

\* the resourceType / resourceId pairs a client subscribes to
SubTopics == {Topic("website", "rw"), Topic("server", "rs")}

\* the interval timers of socket record s made for stream key t
TimersOf(s, t) == {x \in s.timers : x[1] = t}

\* streamReaders.get(t): the timer made last for t, if the Map has the key
ReaderOf(s, t) ==
    IF t \in s.streamReaders
    THEN {x \in TimersOf(s, t) : \A y \in TimersOf(s, t) : y[2] <= x[2]}
    ELSE {}

\* setInterval(...) for stream key t: one more timer
NewTimer(s, t) == <<t, Cardinality(TimersOf(s, t)) + 1>>

\* a close handler that forgets to clear the interval timers
ClosedKeepsReaders(c) == [ws[c] EXCEPT !.pc = "closed"]

\* socket.close(): the close handler clears the interval timers the Map holds
Closed(c) ==
    [ws[c] EXCEPT !.pc = "closed", !.streamReaders = {},
                  !.timers = @ \ UNION {ReaderOf(ws[c], t) : t \in ws[c].streamReaders}]

\* a message from a socket that has not authenticated: error, socket.close()
Refuse(c) == ws' = [ws EXCEPT ![c] = Closed(c)]

\* { type: 'auth', token }
WsAuth(c, token) ==
    /\ ws[c].pc = "open"
    /\ LET decoded == JwtVerify(token)
       IN  ws' = IF decoded # NULL
                 THEN [ws EXCEPT ![c].authenticated = TRUE, ![c].userId = decoded]
                 ELSE [ws EXCEPT ![c] = Closed(c)]
    /\ UNCHANGED <<now, incVars, queryVars, helperVars, dbVars, redisVars, req, answered, sent>>

\* a subscribe branch without the !subscriptions.includes(streamKey) test
WsSubscribeAgain(c, t) ==
    /\ ws[c].pc = "open"
    /\ IF ~ws[c].authenticated THEN Refuse(c)
       ELSE ws' = [ws EXCEPT ![c].subscriptions = @ \cup {t},
                             ![c].streamReaders = @ \cup {t},
                             ![c].timers = @ \cup {NewTimer(ws[c], t)}]
    /\ UNCHANGED <<now, incVars, queryVars, helperVars, dbVars, redisVars, req, answered, sent>>

\* a subscribe branch that is tried before the !authenticated branch
WsSubscribeUnchecked(c, t) ==
    /\ ws[c].pc = "open"
    /\ IF t \notin ws[c].subscriptions
       THEN ws' = [ws EXCEPT ![c].subscriptions = @ \cup {t},
                             ![c].streamReaders = @ \cup {t},
                             ![c].timers = @ \cup {NewTimer(ws[c], t)}]
       ELSE ws' = ws
    /\ UNCHANGED <<now, incVars, queryVars, helperVars, dbVars, redisVars, req, answered, sent>>

\* { type: 'subscribe', resourceId, resourceType }: a new stream key gets an
\* interval timer
WsSubscribe(c, t) ==
    /\ ws[c].pc = "open"
    /\ IF ~ws[c].authenticated THEN Refuse(c)
       ELSE IF t \notin ws[c].subscriptions
       THEN ws' = [ws EXCEPT ![c].subscriptions = @ \cup {t},
                             ![c].streamReaders = @ \cup {t},
                             ![c].timers = @ \cup {NewTimer(ws[c], t)}]
       ELSE ws' = ws
    /\ UNCHANGED <<now, incVars, queryVars, helperVars, dbVars, redisVars, req, answered, sent>>

\* an unsubscribe whose timers are kept per stream key, not per connection
WsUnsubscribeShared(c, t) ==
    /\ ws[c].pc = "open"
    /\ IF ~ws[c].authenticated THEN ws' = [ws EXCEPT ![c] = Closed(c)]
       ELSE IF t \in ws[c].subscriptions
       THEN ws' = [d \in Conns |->
                     [ws[d] EXCEPT !.subscriptions = IF d = c THEN @ \ {t} ELSE @,
                                   !.streamReaders = @ \ {t},
                                   !.timers = @ \ TimersOf(ws[d], t)]]
       ELSE ws' = ws
    /\ UNCHANGED <<now, incVars, queryVars, helperVars, dbVars, redisVars, req, answered, sent>>

\* { type: 'unsubscribe', resourceId, resourceType }
WsUnsubscribe(c, t) ==
    /\ ws[c].pc = "open"
    /\ IF ~ws[c].authenticated THEN Refuse(c)
       ELSE IF t \in ws[c].subscriptions
       THEN ws' = [ws EXCEPT ![c].subscriptions = @ \ {t},
                             ![c].streamReaders = @ \ {t},
                             ![c].timers = @ \ ReaderOf(ws[c], t)]
       ELSE ws' = ws
    /\ UNCHANGED <<now, incVars, queryVars, helperVars, dbVars, redisVars, req, answered, sent>>

\* { type: 'ping' }: a pong, which changes nothing the handler keeps
WsPing(c) ==
    /\ ws[c].pc = "open"
    /\ IF ~ws[c].authenticated THEN Refuse(c) ELSE ws' = ws
    /\ UNCHANGED <<now, incVars, queryVars, helperVars, dbVars, redisVars, req, answered, sent>>

\* the client goes away: socket.on('close')
WsClose(c) ==
    /\ ws[c].pc = "open"
    /\ ws' = [ws EXCEPT ![c] = Closed(c)]
    /\ UNCHANGED <<now, incVars, queryVars, helperVars, dbVars, redisVars, req, answered, sent>>

\* readFromStream(streamKey) without its second argument: lastId = '0'
XreadStartDefault(topic) == 0

\* readFromStream(streamKey, '$'): the id the read starts after is the id of
\* the stream's last entry when Redis executes the command
XreadStart(topic) == Len(streams[topic])

\* the interval callback of a subscription: readFromStream sends XREAD BLOCK
\* 1000 on the instance's one Redis connection
TimerFire(c, t) ==
    /\ TimersOf(ws[c], t) # {}
    /\ Len(redisq[ConnInstance(c)]) < MaxQueue
    /\ redisq' = [redisq EXCEPT ![ConnInstance(c)] =
          Append(@, [op |-> "xread", topic |-> t, fields |-> NULL, by |-> c,
                     blocked |-> FALSE, lastId |-> 0])]
    /\ UNCHANGED <<now, incVars, queryVars, helperVars, outVars, dbVars, feedVars, streams, replies, req, answered>>

\* Redis executes the XREAD at the head of a connection: entries after the
\* start id are returned at once, otherwise the connection blocks
RedisXread(i) ==
    /\ redisq[i] # <<>>
    /\ Head(redisq[i]).op = "xread"
    /\ ~Head(redisq[i]).blocked
    /\ LET h == Head(redisq[i])
           c == [h EXCEPT !.lastId = XreadStart(h.topic)]
       IN  IF c.lastId < Len(streams[c.topic])
           THEN /\ redisq' = [redisq EXCEPT ![i] = Tail(@)]
                /\ replies' = [replies EXCEPT ![i] =
                                  Append(@, XreadReply(c, Len(streams[c.topic])))]
           ELSE /\ redisq' = [redisq EXCEPT ![i] =
                                 <<[c EXCEPT !.blocked = TRUE]>> \o Tail(@)]
                /\ replies' = replies
    /\ UNCHANGED <<now, incVars, queryVars, helperVars, outVars, dbVars, feedVars, streams, req, answered>>

\* BLOCK 1000 runs out: the reply is null, readFromStream returns []
XreadTimeout(i) ==
    /\ redisq[i] # <<>>
    /\ Head(redisq[i]).op = "xread"
    /\ Head(redisq[i]).blocked
    /\ redisq' = [redisq EXCEPT ![i] = Tail(@)]
    /\ UNCHANGED <<now, incVars, queryVars, helperVars, outVars, dbVars, feedVars, streams, replies, req, answered>>

\* the interval callback resumes with the entries read: one socket.send per
\* entry, in the reply's order; a closed socket sends nothing
NodeReply(i) ==
    /\ replies[i] # <<>>
    /\ LET r == Head(replies[i])
           msgs == [k \in 1..(r.last - r.first + 1) |->
                       [topic |-> r.topic, id |-> r.first + k - 1]]
       IN  sent' = IF ws[r.conn].pc = "open"
                   THEN [sent EXCEPT ![r.conn] = @ \o msgs] ELSE sent
    /\ replies' = [replies EXCEPT ![i] = Tail(@)]
    /\ UNCHANGED <<now, incVars, queryVars, helperVars, outVars, dbVars, ws, streams, redisq, req, answered>>

\* the tokens each client tries: c1 is a client of u1, c2 of either user
TokensOf(c) == IF c = "c1" THEN Tokens \ {"t_u2"} ELSE Tokens

\* the resources whose agents report while clients are connected
FeedResources == {"rw"}

NextFeed ==
    \/ \E p \in Requests, r \in FeedResources :
          IngestStart(p, ResourceType(r), "k_ok", DefaultBody(r, TRUE), "none")
    \/ \E p \in Requests : IngestUpdate(p)
    \/ \E p \in Requests : IngestPublish(p)
    \/ \E i \in Instances : RedisXadd(i)
    \/ \E c \in Conns : \E token \in TokensOf(c) : WsAuth(c, token) /\ UNCHANGED out
    \/ \E c \in Conns, t \in SubTopics : WsSubscribe(c, t) /\ UNCHANGED out
    \/ \E c \in Conns, t \in SubTopics : WsUnsubscribe(c, t) /\ UNCHANGED out
    \/ \E c \in Conns : WsPing(c) /\ UNCHANGED out
    \/ \E c \in Conns : WsClose(c) /\ UNCHANGED out
    \/ \E c \in Conns, t \in SubTopics : TimerFire(c, t)
    \/ \E i \in Instances : RedisXread(i)
    \/ \E i \in Instances : XreadTimeout(i)
    \/ \E i \in Instances : NodeReply(i)

SpecFeed == InitIngest /\ [][NextFeed]_vars

\* the ids of the metric messages sent to connection c for topic t, in order
SentIds(c, t) ==
    LET on == SelectSeq(sent[c], LAMBDA m : m.topic = t)
    IN  [k \in 1..Len(on) |-> on[k].id]

\* C10: for every subscriber and topic, the metric messages sent follow the
\* order in which the entries were published to the topic's stream, and no
\* entry is sent twice: the ids sent are strictly increasing.
C10_DeliveredInPublishOrder ==
    \A c \in Conns, t \in SubTopics :
        \A j, k \in 1..Len(SentIds(c, t)) :
            j < k => SentIds(c, t)[j] < SentIds(c, t)[k]

C10_Witness ==
    \E c \in Conns, t \in SubTopics : Len(SentIds(c, t)) = 2

\* the server side keeps running: Redis executes the commands it is sent and
\* lets a BLOCK run out, Node's event loop runs ready callbacks and due timers,
\* a handler past an await goes on. Clients owe nothing.
FeedFairness ==
    /\ WF_vars(\E i \in Instances : RedisXadd(i))
    /\ WF_vars(\E i \in Instances : RedisXread(i))
    /\ WF_vars(\E i \in Instances : XreadTimeout(i))
    /\ WF_vars(\E i \in Instances : NodeReply(i))
    /\ WF_vars(\E c \in Conns, t \in SubTopics : TimerFire(c, t))
    /\ WF_vars(\E p \in Requests : IngestUpdate(p))
    /\ WF_vars(\E p \in Requests : IngestPublish(p))

SpecFeedFair == SpecFeed /\ FeedFairness

\* connection c polls topic t, the topic has no data yet, and an accepted
\* sample for it is on its way to the stream
C11_Waiting(c, t) ==
    /\ ws[c].pc = "open" /\ t \in ws[c].streamReaders
    /\ streams[t] = <<>>
    /\ \E p \in Requests :
          req[p].pc = "xadd" /\ Topic(req[p].kind, req[p].resourceId) = t

\* the first entry of topic t has been sent to c
C11_Got(c, t) == \E k \in 1..Len(SentIds(c, t)) : SentIds(c, t)[k] = 1

\* C11: a subscriber of a resource with no prior data that stays subscribed
\* receives the metric event of the sample ingested next (and by C10 only
\* once): from a state where it waits, it either gets the stream's first entry
\* or has left the topic.
C11_SubscriberGetsSample ==
    \A c \in Conns, t \in SubTopics :
        C11_Waiting(c, t) ~> (C11_Got(c, t) \/ t \notin ws[c].streamReaders)

\* C12: once a connection has unsubscribed from a topic, no metric message
\* for that topic is sent on it, also when a read started earlier returns:
\* a step that sends c a message for t is taken while c is subscribed to t.
C12_NothingAfterUnsubscribe ==
    [][\A c \in Conns, t \in SubTopics :
         SentIds(c, t)' # SentIds(c, t) => t \in ws[c].subscriptions]_vars

\* C13: the publish of an ingest request never waits for a subscriber's
\* read: no XADD is queued on a connection behind an XREAD.
C13_PublishNeverWaits ==
    \A i \in Instances : \A k \in 1..Len(redisq[i]) :
        redisq[i][k].op = "xadd" => \A j \in 1..(k - 1) : redisq[i][j].op # "xread"

\* the reads of connection d that Redis has not answered, and the replies for
\* d that Node has not handled
ReadsOf(d) == SelectSeq(redisq[ConnInstance(d)], LAMBDA x : x.op = "xread" /\ x.by = d)
RepliesOf(d) == SelectSeq(replies[ConnInstance(d)], LAMBDA x : x.conn = d)

\* C14: an unsubscribe or a close on one connection leaves every other
\* connection as it is: its subscriptions, its timers, the reads it has in
\* flight and what it was sent; so what the other would receive it still does.
C14_UnsubscribeLeavesOthers ==
    [][\A c \in Conns :
         (ws'[c].subscriptions # ws[c].subscriptions \/ ws'[c].pc # ws[c].pc)
         => \A d \in Conns \ {c} :
                /\ ws'[d] = ws[d]
                /\ sent'[d] = sent[d]
                /\ ReadsOf(d)' = ReadsOf(d)
                /\ RepliesOf(d)' = RepliesOf(d)]_vars

\* one connection has left a topic it had received from, the other is still
\* subscribed and has received the entry published afterwards
C14_Witness ==
    \E c \in Conns, t \in SubTopics : \E d \in Conns \ {c} :
        /\ ws[c].authenticated /\ t \notin ws[c].subscriptions
        /\ SentIds(c, t) = <<1>>
        /\ t \in ws[d].streamReaders
        /\ SentIds(d, t) = <<2>>

\* C15: a closed connection has no polling timer, issues no new read and is
\* sent no metric message.
C15_ClosedHasNoTimers ==
    \A c \in Conns :
        ws[c].pc = "closed" => ws[c].streamReaders = {} /\ ws[c].timers = {}

C15_ClosedIsSilent ==
    [][\A c \in Conns :
         ws[c].pc = "closed" =>
            /\ ws'[c].pc = "closed"
            /\ sent'[c] = sent[c]
            /\ Len(ReadsOf(c)') <= Len(ReadsOf(c))]_vars

C15_CloseUnsubscribesAll == []C15_ClosedHasNoTimers /\ C15_ClosedIsSilent

\* a connection closed while subscribed, with the reply of a read it had in
\* flight still to be handled
C15_Witness ==
    \E c \in Conns :
        /\ ws[c].pc = "closed" /\ ws[c].subscriptions # {}
        /\ RepliesOf(c) # <<>>

\* C16: a connection is only sent metric messages of resources its user owns.
C16_FeedScopedToOwner ==
    [][\A c \in Conns :
         sent'[c] # sent[c] =>
            /\ ws[c].userId # NULL
            /\ \A k \in 1..Len(sent'[c]) :
                  ResourceOwner(sent'[c][k].topic[2]) = ws[c].userId[1]]_vars

\* ============================================================ alerting
\* the agent of server rs reports while policy p1 is active and the incidents
\* table is empty (NULL: no such row)
AlertBodies ==
    {[resourceId |-> "rs", metrics |-> m, timestamp |-> NULL, wellFormed |-> TRUE] :
        m \in ServerMetrics}

InitAlert ==
    /\ now = 0
    /\ incidents = [i \in IncidentIds |-> NULL]
    /\ incident_history = <<>>
    /\ call = [p \in Callers |-> IdleCall]
    /\ InitIngestState

NextAlert ==
    \/ ClockTick /\ UNCHANGED <<incVars, ingVars>>
    \/ \E p \in Requests, b \in AlertBodies : IngestStart(p, "server", "k_ok", b, "none")
    \/ \E p \in Requests : IngestUpdate(p)
    \/ \E p \in Requests : IngestPublish(p)
    \/ \E i \in Instances : RedisXadd(i)

SpecAlert == InitAlert /\ [][NextAlert]_vars

\* the stored samples of a resource that violate one of its active policies
\* (condition gt on cpuUsagePercent)
Violating(pol) ==
    {m \in metrics : /\ m.resource_id = pol.resource_id
                     /\ pol.is_active /\ pol.condition = "gt"
                     /\ m.values.cpu > pol.threshold}

\* the open (active or acknowledged) incidents of a policy on its resource
OpenIncidents(pol) ==
    {i \in IncidentIds : /\ incidents[i] # NULL
                         /\ incidents[i].alert_policy_id = pol.id
                         /\ incidents[i].resource_id = pol.resource_id
                         /\ incidents[i].state \in {"active", "acknowledged"}}

\* every request has been answered, the last one with 200
Ingested == answered.code = 200 /\ \A p \in Requests : req[p].pc = "idle"

\* C18: at most one open incident per (policy, resource); once two violating
\* samples have been ingested with nothing resolved in between, there is
\* exactly one, and it is active.
C18_OneOpenIncident ==
    \A pol \in AlertPolicies :
        /\ Cardinality(OpenIncidents(pol)) <= 1
        /\ (Ingested /\ Cardinality(Violating(pol)) = 2)
           => \E i \in IncidentIds :
                 OpenIncidents(pol) = {i} /\ incidents[i].state = "active"

\* C19: once a server sample with cpu 95 has been ingested for a resource
\* with an active policy cpuUsagePercent gt 90, the resource is critical and
\* an active incident with triggered value 95 exists for the policy.
C19_ViolationRaisesIncident ==
    \A pol \in AlertPolicies :
        (Ingested /\ Cardinality(metrics) = 1 /\ \E m \in Violating(pol) : m.values.cpu = 95)
        => /\ resources[pol.resource_id].status = "critical"
           /\ \E i \in OpenIncidents(pol) :
                 /\ incidents[i].state = "active"
                 /\ incidents[i].triggered_value = <<95>>

\* ============================================================ queries
\* request.user of POST /metrics/latest: the authenticated caller and role
QueryUsers == {[id |-> u, role |-> r] : u \in Users, r \in {"user", "admin"}}

\* request.body.resourceIds: NULL when missing or not an array
QueryInputs == {NULL} \cup {<<{r}>> : r \in ResourceIds} \cup {<<{"rs", "rw"}>>}

\* SELECT id, name, type FROM resources WHERE id = ANY($1) [AND user_id = $2]
ValidResources(user, ids) ==
    {r \in ids : user.role = "admin" \/ ResourceOwner(r) = user.id}

\* a query that takes the row stored last instead of the row with the
\* greatest time
LatestRowsByArrival(r) ==
    LET rows == {m \in metrics : m.table = ResourceType(r) /\ m.resource_id = r}
    IN  {m \in rows : \A o \in rows : o.n <= m.n}

\* SELECT * FROM ankercloud.<type>_metrics WHERE resource_id = $1
\* ORDER BY time DESC LIMIT 1: the rows the query may return (any one of the
\* rows with the greatest time), none when the resource has no row
LatestRows(r) ==
    LET rows == {m \in metrics : m.table = ResourceType(r) /\ m.resource_id = r}
    IN  {m \in rows : \A o \in rows : o.time <= m.time}

\* the latestMetrics objects the handler may build: one row for every valid
\* resource that has rows
LatestReplies(user, ids) ==
    LET found == {r \in ValidResources(user, ids) : LatestRows(r) # {}}
    IN  {pick \in SUBSET UNION {LatestRows(r) : r \in found} :
            \A r \in found : Cardinality({m \in pick : m.resource_id = r}) = 1}

\* POST /metrics/latest
LatestQuery(user, ids) ==
    /\ IF ids = NULL
       THEN latest' = [code |-> 400, user |-> user.id, resourceIds |-> {}, metrics |-> {}]
       ELSE \E pick \in LatestReplies(user, ids[1]) :
               latest' = [code |-> 200, user |-> user.id, resourceIds |-> ids[1],
                          metrics |-> pick]
    /\ UNCHANGED <<now, incVars, helperVars, outVars, dbVars, redisVars, feedVars, req,
                   answered>>

\* the samples agents report while the dashboard queries
QueryBodies ==
    {[resourceId |-> r, metrics |-> NoMetrics, timestamp |-> t, wellFormed |-> TRUE] :
        r \in {"rs", "rw"}, t \in Timestamps \cup {NULL}}

NextQuery ==
    \/ ClockTick /\ UNCHANGED <<incVars, ingVars>>
    \/ \E p \in Requests, b \in QueryBodies :
          IngestStart(p, ResourceType(b.resourceId), "k_ok", b, "none")
    \/ \E p \in Requests : IngestUpdate(p)
    \/ \E p \in Requests : IngestPublish(p)
    \/ \E p \in Requests : IngestFail(p)
    \/ \E i \in Instances : RedisXadd(i)
    \/ \E user \in QueryUsers, ids \in QueryInputs : LatestQuery(user, ids)

SpecQuery == InitIngest /\ [][NextQuery]_vars

\* C20: latest never regresses. In every state, whatever POST /metrics/latest
\* answers for a resource of the caller is a stored sample whose timestamp is
\* at least that of every sample stored for the resource; stored samples are
\* never removed, so this covers every sample ingested before the query.
C20_LatestIsNewest ==
    \A user \in QueryUsers, ids \in QueryInputs \ {NULL} :
        \A pick \in LatestReplies(user, ids[1]) :
            \A r \in ValidResources(user, ids[1]) :
                \A s \in {m \in metrics : m.resource_id = r} :
                    \E m \in pick : m.resource_id = r /\ m.time >= s.time

C20_SamplesStay == [][metrics \subseteq metrics']_vars

C20_AnswerIsNewest ==
    [][latest' # latest =>
         \A r \in ValidResources([id |-> latest'.user, role |-> "user"], latest'.resourceIds) :
             \A s \in {m \in metrics : m.resource_id = r} :
                 \E m \in latest'.metrics : m.resource_id = r /\ m.time >= s.time]_vars

Updates(p) == req[p].pc = "update" /\ req'[p].pc = "publish"

\* C4: out-of-order arrival does not override status: a request whose sample is
\* older than the one the resource's status was last derived from (the
\* resource's last_seen_at) leaves the status as it is, for every resource kind.
C4_OlderSampleKeepsStatus ==
    [][\A p \in Requests :
         (/\ Updates(p)
          /\ resources[req[p].resourceId].last_seen_at # NULL
          /\ req[p].timestamp[1] < resources[req[p].resourceId].last_seen_at[1])
         => resources'[req[p].resourceId].status
              = resources[req[p].resourceId].status]_vars

\* C5: a resource's last_seen_at never decreases (and is never unset).
C5_LastSeenOnlyAdvances ==
    [][\A r \in ResourceIds :
         resources[r].last_seen_at # NULL
         => /\ resources'[r].last_seen_at # NULL
            /\ resources'[r].last_seen_at[1] >= resources[r].last_seen_at[1]]_vars

\* C6: a request whose sample insert and health update succeeded is answered 200
\* even when publishing to the live feed throws.
C6_PublishFailureNotSurfaced ==
    ({"sample", "health"} \subseteq answered.effects /\ answered.cause # "db")
    => answered.code = 200

\* C7: a request answered with a failure has not left one of sample and health
\* update without the other.
C7_NoPartialDerivedState ==
    answered.code = 500
    => ("sample" \in answered.effects <=> "health" \in answered.effects)

\* key k is stored, active and not expired at time t
GoodKey(k, t) ==
    \E row \in ApiKeyRows :
        /\ row.key = k
        /\ row.is_active
        /\ row.expires_at = NULL \/ row.expires_at[1] >= t

\* the step answers a request before it stored anything
EarlyAnswerStep == answered' # answered /\ req' = req

\* the step takes request p past its checks
Accepts(p) == req[p].pc = "idle" /\ req'[p].pc # "idle"

\* C8: a request whose key is absent, unknown, revoked or expired is answered
\* 401, whatever the endpoint; a request that gets any other answer, or goes on
\* to store its sample, carried an active unexpired key, and the sample is
\* stored under that key's owner.
C8_BadKeyUnauthorized ==
    [][/\ (EarlyAnswerStep /\ ~GoodKey(answered'.key, now)) => answered'.code = 401
       /\ \A p \in Requests :
             Accepts(p) =>
                /\ GoodKey(req'[p].key, now)
                /\ \E m \in metrics' \ metrics, row \in ApiKeyRows :
                      row.key = req'[p].key /\ m.user = row.user_id]_vars

C8_Witness ==
    /\ answered.key = "k_exp" /\ answered.code = 401 /\ now = 1
    /\ \E p \in Requests : req[p].pc = "publish" /\ req[p].key = "k_exp"

\* the percentages of a stored or published sample are within [0, 100]
InRange(v) == \A x \in {v.cpu, v.memory, v.disk} : x >= 0 /\ x <= 100

\* C9: a rejected ingest changes nothing. A request answered 401, 404 or 400 has
\* stored no sample, updated no status or last_seen_at and published nothing, and
\* the step that answers it leaves the tables and the streams as they are; so
\* every stored sample is in range, for a resource of the endpoint's kind that
\* the caller owns, and nothing else reaches the health register or a stream.
C9_StoredOnlyIfAccepted ==
    /\ answered.code \in {400, 401, 404} => answered.effects = {}
    /\ \A m \in metrics :
          /\ InRange(m.values)
          /\ ResourceType(m.resource_id) = m.table
          /\ ResourceOwner(m.resource_id) = m.user
    /\ \A r \in ResourceIds :
          resources[r].last_seen_at # NULL =>
             \E m \in metrics : m.resource_id = r /\ <<m.time>> = resources[r].last_seen_at
    /\ \A t \in Topics : \A k \in 1..Len(streams[t]) :
          \E m \in metrics : /\ Topic(m.table, m.resource_id) = t
                             /\ m.values = streams[t][k].data
                             /\ <<m.time>> = streams[t][k].timestamp

C9_RejectionChangesNothing ==
    [][(EarlyAnswerStep /\ answered'.code \in {400, 401, 404})
         => UNCHANGED <<resources, servers, metrics, streams, redisq>>]_vars

C9_RejectedIngestIsNoOp == []C9_StoredOnlyIfAccepted /\ C9_RejectionChangesNothing

C9_Witness ==
    /\ answered.code = 400 /\ answered.key = "k_ok"
    /\ Cardinality(metrics) = 1
    /\ \E r \in ResourceIds : resources[r].last_seen_at # NULL

\* ====================================================== specifications
InitIncident ==
    /\ now = 0
    /\ incidents = [i \in IncidentIds |-> NewIncident]
    /\ incident_history = <<>>
    /\ call = [p \in Callers |-> IdleCall]
    /\ InitIngestState

NextIncident ==
    \/ ClockTick /\ UNCHANGED <<incVars, ingVars>>
    \/ \E p \in Callers, op \in {"acknowledge", "resolve"}, u \in Users,
          i \in IncidentIds, n \in NoteTexts \cup {NULL} : CallStart(p, op, u, i, n)
    \/ \E p \in Callers : TxUpdate(p)
    \/ \E p \in Callers : TxInsert(p)
    \/ \E p \in Callers : TxCommit(p)
    \/ \E p \in Callers : TxFail(p)

SpecIncident == InitIncident /\ [][NextIncident]_vars

\* ------------------------------------------------------ incident claims
\* the history rows of incident i, in append order
HistoryOf(i) == SelectSeq(incident_history, LAMBDA e : e.incident_id = i)

\* caller p's request is answered in this step, and not with a storage error
Answered(p) == call[p].pc # "done" /\ call'[p].pc = "done" /\ call'[p].code # 500

\* C1: a resolve call by the owner on an incident that is already resolved is
\* answered with a PreconditionFailed-class error and changes neither the
\* incident row (resolved_at, state, notes) nor the history log.
C1_ResolveTwiceIsRejected ==
    [][\A p \in Callers :
         (/\ call[p].op = "resolve"
          /\ IncidentCheck(call[p].id, call[p].user)
          /\ incidents[call[p].id].state = "resolved"
          /\ Answered(p))
         => (/\ call'[p].code \in {409, 412}
             /\ incidents' = incidents
             /\ incident_history' = incident_history)]_vars

\* C2: resolved is terminal: once an incident's state is resolved, no step
\* (acknowledge or resolve) changes its state again.
C2_ResolvedIsTerminal ==
    [][\A i \in IncidentIds :
         incidents[i].state = "resolved" => incidents'[i].state = "resolved"]_vars

\* C3: a transition and its history entry are applied together or not at all:
\* a step that changes an incident row or the history appends exactly one
\* history entry, for an incident whose new state is that entry's action; and
\* the state of an incident with history is the action of its last entry.
C3_StateMatchesHistory ==
    \A i \in IncidentIds :
        LET h == HistoryOf(i)
        IN  /\ h # <<>> => incidents[i].state = h[Len(h)].action
            /\ h = <<>> => incidents[i] = NewIncident

C3_TransitionAtomic ==
    [][(incidents' # incidents \/ incident_history' # incident_history)
         => (/\ Len(incident_history') = Len(incident_history) + 1
             /\ SubSeq(incident_history', 1, Len(incident_history)) = incident_history
             /\ LET e == incident_history'[Len(incident_history')]
                IN  /\ incidents'[e.incident_id].state = e.action
                    /\ \A j \in IncidentIds \ {e.incident_id} :
                          incidents'[j] = incidents[j])]_vars

C3_HistoryAtomicWithState == []C3_StateMatchesHistory /\ C3_TransitionAtomic

\* two transactions on one incident ran one after the other, a failed one in
\* between left no trace
C3_Witness ==
    /\ Len(HistoryOf("i1")) = 2
    /\ \E p \in Callers : call[p].code = 500 /\ call[p].pc = "done"
    /\ \E p \in Callers : call[p].pc = "commit"

\* the request of caller p comes from a user who does not own the policy of
\* the incident it names
Foreign(c) == c.user # "none" /\ PolicyOwner(c.id) # c.user

\* C17: acknowledge or resolve by a caller who does not own the incident's
\* policy is answered 404 and never enters the transaction; the step that
\* takes the request leaves incidents and history as they are, and every
\* history row was written for the owner.
C17_ForeignCallerNotFound ==
    /\ \A p \in Callers :
          Foreign(call[p]) => call[p].pc = "done" /\ call[p].code = 404
    /\ \A k \in 1..Len(incident_history) :
          incident_history[k].performed_by = PolicyOwner(incident_history[k].incident_id)

C17_ForeignCallChangesNothing ==
    [][\A p \in Callers :
         (call'[p] # call[p] /\ Foreign(call'[p]))
         => UNCHANGED <<incidents, incident_history>>]_vars

C17_IncidentActionsScoped == []C17_ForeignCallerNotFound /\ C17_ForeignCallChangesNothing

C17_Witness ==
    /\ \E p \in Callers :
          call[p].user = "u2" /\ call[p].op = "resolve" /\ call[p].code = 404
    /\ incidents["i1"].state = "acknowledged"
    /\ Len(incident_history) = 1

\* ====================================================== socket protocol
\* what the message handler sends back, branch by branch, from the closure
\* as it is when the message arrives
NotAuthenticated == <<Control("error", "Not authenticated", NULL)>>

AuthReplies(c, token) ==
    IF JwtVerify(token) # NULL
    THEN <<Control("auth", "success", NULL)>>
    ELSE <<Control("auth", "Invalid token", NULL)>>

SubscribeReplies(c, t) ==
    IF ~ws[c].authenticated THEN NotAuthenticated
    ELSE IF t \notin ws[c].subscriptions THEN <<Control("subscribed", "", t)>>
    ELSE <<>>

UnsubscribeReplies(c, t) ==
    IF ~ws[c].authenticated THEN NotAuthenticated
    ELSE IF t \in ws[c].subscriptions THEN <<Control("unsubscribed", "", t)>>
    ELSE <<>>

PingReplies(c) ==
    IF ~ws[c].authenticated THEN NotAuthenticated ELSE <<Control("pong", "", NULL)>>

\* the handler has run for msg on connection c and sent the messages ctl
Heard(c, msg, ctl) == out' = [conn |-> c, msg |-> msg, replies |-> ctl]

\* a frame that is not JSON, or JSON without a type to read (null): JSON.parse
\* or data.type throws, the catch sends an error and leaves the socket as it is
WsMalformed(c) ==
    /\ ws[c].pc = "open"
    /\ Heard(c, Message("malformed", "", NULL),
             <<Control("error", "Invalid message format", NULL)>>)
    /\ UNCHANGED <<now, incVars, queryVars, helperVars, dbVars, redisVars, feedVars, req,
                   answered>>

\* the connection whose protocol is followed message by message, and the
\* request that ingests meanwhile
SocketConns == {"c1"}
SocketRequests == {"q1"}

NextSocket ==
    \/ \E p \in SocketRequests, r \in FeedResources :
          IngestStart(p, ResourceType(r), "k_ok", DefaultBody(r, TRUE), "none")
    \/ \E p \in SocketRequests : IngestUpdate(p)
    \/ \E p \in SocketRequests : IngestPublish(p)
    \/ \E i \in Instances : RedisXadd(i)
    \/ \E c \in SocketConns : \E token \in TokensOf(c) :
          WsAuth(c, token) /\ Heard(c, Message("auth", token, NULL), AuthReplies(c, token))
    \/ \E c \in SocketConns, t \in SubTopics :
          WsSubscribe(c, t) /\ Heard(c, Message("subscribe", "", t), SubscribeReplies(c, t))
    \/ \E c \in SocketConns, t \in SubTopics :
          WsUnsubscribe(c, t)
          /\ Heard(c, Message("unsubscribe", "", t), UnsubscribeReplies(c, t))
    \/ \E c \in SocketConns :
          WsPing(c) /\ Heard(c, Message("ping", "", NULL), PingReplies(c))
    \/ \E c \in SocketConns : WsMalformed(c)
    \/ \E c \in SocketConns : WsClose(c) /\ UNCHANGED out
    \/ \E c \in SocketConns, t \in SubTopics : TimerFire(c, t)
    \/ \E i \in Instances : RedisXread(i)
    \/ \E i \in Instances : XreadTimeout(i)
    \/ \E i \in Instances : NodeReply(i)

SpecSocket == InitIngest /\ [][NextSocket]_vars

\* =================================================== status derivation
\* the samples agents report at and around the thresholds of the banding, and
\* the checks of a website and a network target, up or down
BandMetrics ==
    {[NoMetrics EXCEPT !.cpu = c[1], !.memory = c[2], !.disk = c[3]] :
        c \in {<<75, 75, 75>>, <<75, 76, 75>>, <<90, 90, 90>>, <<90, 75, 91>>}}

StatusBodies ==
    UNION {{[resourceId |-> r, metrics |-> m, timestamp |-> t, wellFormed |-> TRUE] :
               m \in IF r = "rs" THEN BandMetrics ELSE CheckMetrics,
               t \in Timestamps \cup {NULL}} : r \in {"rs", "rw", "rn"}}

NextStatus ==
    \/ ClockTick /\ UNCHANGED <<incVars, ingVars>>
    \/ \E p \in Requests, b \in StatusBodies :
          IngestStart(p, ResourceType(b.resourceId), "k_ok", b, "none")
    \/ \E p \in Requests : IngestUpdate(p)
    \/ \E p \in Requests : IngestPublish(p)
    \/ \E i \in Instances : RedisXadd(i)

SpecStatus == InitIngest /\ [][NextStatus]_vars

\* the highest of the three usages of a stored server sample
TopUsage(m) ==
    CHOOSE x \in {m.values.cpu, m.values.memory, m.values.disk} :
        \A y \in {m.values.cpu, m.values.memory, m.values.disk} : y <= x

\* the samples a server's status derives from: its stored samples within the
\* freshness horizon that have the latest timestamp
Deriving(r) ==
    LET fresh == {m \in metrics : m.table = "server" /\ m.resource_id = r
                                  /\ now - m.time < FreshnessMinutes}
    IN  {m \in fresh : \A o \in fresh : o.time <= m.time}

\* C23: after an ingest has updated the health register, a server's status is
\* critical when a usage of the deriving sample is above 90, else warning when
\* one is above 75, else online, so 90 is warning and 75 is online (unknown
\* when no sample is within the freshness horizon); a website's or network
\* target's status is online when the sample's availability is true, offline
\* when it is false.
C23_StatusDerivation ==
    [][\A p \in Requests :
          Updates(p) =>
             LET st == resources'[req[p].resourceId].status
             IN  IF req[p].kind = "server"
                 THEN IF Deriving(req[p].resourceId) = {} THEN st = "unknown"
                      ELSE \E m \in Deriving(req[p].resourceId) :
                              /\ st = "critical" <=> TopUsage(m) > 90
                              /\ st = "warning" <=> TopUsage(m) > 75 /\ TopUsage(m) <= 90
                              /\ st = "online" <=> TopUsage(m) <= 75
                              /\ st \in {"critical", "warning", "online"}
                 ELSE /\ req[p].metrics.available => st = "online"
                      /\ ~req[p].metrics.available => st = "offline"]_vars

\* a server whose only sample has a usage of exactly 90 and none above is in
\* warning, while a website whose check failed is offline
C23_Witness ==
    /\ resources["rs"].status = "warning"
    /\ \E m \in metrics : m.resource_id = "rs" /\ TopUsage(m) = 90
    /\ Cardinality({m \in metrics : m.resource_id = "rs"}) = 1
    /\ resources["rw"].status = "offline"

MaxSockets == 3        \* WebSocket objects the client makes

\* the resources the dashboard subscribes to
ClientResources == {"rs", "rw"}

\* new WebSocket(...) with onopen, onmessage, onerror and onclose attached:
\* this.ws is the new socket, one the client had before is left as it is
NewWebSocket ==
    [realtime EXCEPT !.sockets = Append(@, "connecting"),
                     !.ws = Len(realtime.sockets) + 1]

\* the application calls connect(token) (AuthContext, when a user is set)
RealtimeConnect ==
    /\ Len(realtime.sockets) < MaxSockets
    /\ realtime' = [NewWebSocket EXCEPT !.user = "connect"]
    /\ UNCHANGED <<now, incVars, serverVars, pool, tx>>

\* onopen of socket k: sends the auth message
RealtimeOnOpen(k) ==
    /\ k \in 1..Len(realtime.sockets)
    /\ realtime.sockets[k] = "connecting"
    /\ realtime' = [realtime EXCEPT !.sockets[k] = "open"]
    /\ UNCHANGED <<now, incVars, serverVars, pool, tx>>

\* onclose of socket k (the server or the network closed it, the connection
\* failed, or a close() the client called has completed): this.reconnect(token)
\* clears a pending timer and sets a new one
RealtimeOnClose(k) ==
    /\ k \in 1..Len(realtime.sockets)
    /\ realtime.sockets[k] # "closed"
    /\ realtime' = [realtime EXCEPT !.sockets[k] = "closed", !.reconnectTimer = TRUE]
    /\ UNCHANGED <<now, incVars, serverVars, pool, tx>>

\* the reconnect timer's callback, 5 s after it was set: this.connect(token)
RealtimeReconnect ==
    /\ realtime.reconnectTimer
    /\ Len(realtime.sockets) < MaxSockets
    /\ realtime' = [NewWebSocket EXCEPT !.reconnectTimer = FALSE]
    /\ UNCHANGED <<now, incVars, serverVars, pool, tx>>

\* subscribe(resourceId, callback) and unsubscribe(resourceId): the callback
\* map; the message is sent only if this.ws is open
RealtimeSubscribe(r) ==
    /\ realtime' = [realtime EXCEPT !.subscriptions = @ \cup {r}]
    /\ UNCHANGED <<now, incVars, serverVars, pool, tx>>

RealtimeUnsubscribe(r) ==
    /\ realtime' = [realtime EXCEPT !.subscriptions = @ \ {r}]
    /\ UNCHANGED <<now, incVars, serverVars, pool, tx>>

\* disconnect(): clearTimeout, this.ws.close(), this.ws = null,
\* subscriptions.clear(); the closed socket keeps its handlers
RealtimeDisconnect ==
    /\ realtime' =
          [realtime EXCEPT
              !.reconnectTimer = FALSE,
              !.sockets = [k \in 1..Len(@) |->
                             IF k = realtime.ws /\ @[k] \in {"connecting", "open"}
                             THEN "closing" ELSE @[k]],
              !.ws = 0,
              !.subscriptions = {},
              !.user = "disconnect"]
    /\ UNCHANGED <<now, incVars, serverVars, pool, tx>>

NextClient ==
    \/ RealtimeConnect
    \/ \E k \in 1..MaxSockets : RealtimeOnOpen(k)
    \/ \E k \in 1..MaxSockets : RealtimeOnClose(k)
    \/ RealtimeReconnect
    \/ \E r \in ClientResources : RealtimeSubscribe(r)
    \/ \E r \in ClientResources : RealtimeUnsubscribe(r)
    \/ RealtimeDisconnect

SpecClient == InitIngest /\ [][NextClient]_vars

\* C29: after disconnect() the client opens no WebSocket on its own: as long
\* as disconnect() was the application's last call, no reconnect timer is
\* pending and the client holds no socket.
C29_DisconnectStaysDisconnected ==
    realtime.user = "disconnect" => ~realtime.reconnectTimer /\ realtime.ws = 0

\* ================================================== transaction helper
\* transaction(callback) is called: getDatabase(), then db.connect()
TransactionCall(p) ==
    /\ tx[p].pc \in {"idle", "done"}
    /\ tx' = [tx EXCEPT ![p] = [IdleTransaction EXCEPT !.pc = "connect"]]
    /\ UNCHANGED <<now, incVars, serverVars, realtime, pool>>

\* db.connect() resolves with an idle client of the pool
TransactionConnect(p) ==
    /\ tx[p].pc = "connect"
    /\ \E d \in pool :
          /\ pool' = pool \ {d}
          /\ tx' = [tx EXCEPT ![p].client = d, ![p].pc = "begin"]
    /\ UNCHANGED <<now, incVars, serverVars, realtime>>

\* db.connect() rejects (no connection within connectionTimeoutMillis): the
\* helper throws before its try, with no client to release
TransactionConnectFail(p) ==
    /\ tx[p].pc = "connect"
    /\ tx' = [tx EXCEPT ![p].error = "connect", ![p].outcome = "threw",
                        ![p].pc = "done"]
    /\ UNCHANGED <<now, incVars, serverVars, realtime, pool>>

\* await client.query('BEGIN')
TransactionBegin(p, ok) ==
    /\ tx[p].pc = "begin"
    /\ tx' = IF ok THEN [tx EXCEPT ![p].pc = "callback"]
             ELSE [tx EXCEPT ![p].error = "begin", ![p].pc = "rollback"]
    /\ UNCHANGED <<now, incVars, serverVars, realtime, pool>>

\* await callback(client): its statements run on the client; one that
\* throws may have written before (wrote)
TransactionCallback(p, ok, wrote) ==
    /\ tx[p].pc = "callback"
    /\ tx' = IF ok THEN [tx EXCEPT ![p].work = "pending", ![p].pc = "commit"]
             ELSE [tx EXCEPT ![p].work = IF wrote THEN "pending" ELSE "none",
                             ![p].error = "callback", ![p].pc = "rollback"]
    /\ UNCHANGED <<now, incVars, serverVars, realtime, pool>>

\* await client.query('COMMIT'), then return result (through the finally)
TransactionCommit(p, ok) ==
    /\ tx[p].pc = "commit"
    /\ tx' = IF ok THEN [tx EXCEPT ![p].work = "committed", ![p].pc = "finally"]
             ELSE [tx EXCEPT ![p].error = "commit", ![p].pc = "rollback"]
    /\ UNCHANGED <<now, incVars, serverVars, realtime, pool>>

\* a helper whose release is the last statement of the catch block
TransactionRollbackThenRelease(p, ok) ==
    /\ tx[p].pc = "rollback"
    /\ tx' = IF ok
             THEN [tx EXCEPT ![p].rollback = TRUE, ![p].pc = "finally",
                             ![p].work = IF @ = "pending" THEN "rolledback" ELSE @]
             ELSE [tx EXCEPT ![p].rollback = TRUE, ![p].error = "rollback",
                             ![p].outcome = "threw", ![p].pc = "done"]
    /\ UNCHANGED <<now, incVars, serverVars, realtime, pool>>

\* catch (error): await client.query('ROLLBACK'), then throw error; a ROLLBACK
\* that rejects throws its own error instead. The finally runs either way.
TransactionRollback(p, ok) ==
    /\ tx[p].pc = "rollback"
    /\ tx' = IF ok
             THEN [tx EXCEPT ![p].rollback = TRUE, ![p].pc = "finally",
                             ![p].work = IF @ = "pending" THEN "rolledback" ELSE @]
             ELSE [tx EXCEPT ![p].rollback = TRUE, ![p].error = "rollback",
                             ![p].pc = "finally"]
    /\ UNCHANGED <<now, incVars, serverVars, realtime, pool>>

\* finally: client.release(); the call returns the result or throws
TransactionRelease(p) ==
    /\ tx[p].pc = "finally"
    /\ pool' = pool \cup {tx[p].client}
    /\ tx' = [tx EXCEPT ![p].released = @ + 1, ![p].pc = "done",
                        ![p].outcome = IF tx[p].error = "none" THEN "returned"
                                       ELSE "threw"]
    /\ UNCHANGED <<now, incVars, serverVars, realtime>>

NextTransaction ==
    \/ \E p \in Callers : TransactionCall(p)
    \/ \E p \in Callers : TransactionConnect(p)
    \/ \E p \in Callers : TransactionConnectFail(p)
    \/ \E p \in Callers, ok \in BOOLEAN : TransactionBegin(p, ok)
    \/ \E p \in Callers, ok, wrote \in BOOLEAN : TransactionCallback(p, ok, wrote)
    \/ \E p \in Callers, ok \in BOOLEAN : TransactionCommit(p, ok)
    \/ \E p \in Callers, ok \in BOOLEAN : TransactionRollback(p, ok)
    \/ \E p \in Callers : TransactionRelease(p)

SpecTransaction == InitIngest /\ [][NextTransaction]_vars

\* C30: the transaction helper releases the client exactly once on every path
\* (never before the call ends, once when it has ended with a client, the
\* client then no longer held); it returns only after a COMMIT that succeeded;
\* a call that fails with a client has issued ROLLBACK, throws, and has
\* committed nothing the callback wrote.
C30_ReleasedOnceCommitOrRollback ==
    \A p \in Callers :
        /\ tx[p].pc # "done" => tx[p].released = 0 /\ tx[p].outcome = "none"
        /\ tx[p].pc \in {"begin", "callback", "commit", "rollback", "finally"}
           => tx[p].client \notin pool
        /\ (tx[p].pc = "done" /\ tx[p].client # "none") => tx[p].released = 1
        /\ (tx[p].pc = "done" /\ tx[p].client = "none")
           => tx[p].released = 0 /\ tx[p].outcome = "threw"
        /\ tx[p].outcome = "returned"
           => tx[p].error = "none" /\ tx[p].work = "committed"
        /\ (tx[p].outcome = "threw" /\ tx[p].client # "none")
           => tx[p].rollback /\ tx[p].work # "committed"
        /\ tx[p].pc = "done" => tx[p].outcome # "none"

\* one call has ended by a ROLLBACK that failed, its client released once,
\* and another has returned after its COMMIT
C30_Witness ==
    \E p, q \in Callers :
        /\ tx[p].pc = "done" /\ tx[p].error = "rollback" /\ tx[p].released = 1
        /\ tx[p].client \in pool
        /\ tx[q].outcome = "returned" /\ tx[q].released = 1

\* ------------------------------------------------------- further claims
\* C21: latest honours the freshness horizon: an answer of POST /latest
\* carries no sample older than the horizon, also when that sample is the
\* most recent one the resource has.
C21_LatestHonoursHorizon ==
    [][latest' # latest =>
         \A m \in latest'.metrics : now - m.time <= FreshnessMinutes]_vars

\* the note texts in a notes value (NULL holds none)
NotesIn(notes) == {notes[k] : k \in 1..Len(notes)}

\* C22: notes are append-only: every note text an incident's notes hold is
\* still held after any further acknowledge or resolve, with or without notes.
C22_NotesAppendOnly ==
    [][\A i \in IncidentIds :
         NotesIn(incidents[i].notes) \subseteq NotesIn(incidents'[i].notes)]_vars

\* C25: resolved_at is set exactly when the state is resolved, and
\* acknowledged_at and acknowledged_by are set whenever it is acknowledged.
C25_TimestampsAgreeWithState ==
    \A i \in IncidentIds :
        /\ incidents[i].resolved_at # NULL <=> incidents[i].state = "resolved"
        /\ incidents[i].state = "acknowledged"
           => /\ incidents[i].acknowledged_at # NULL
              /\ incidents[i].acknowledged_by # NULL

\* C24: the ingest checks come in the order credential, resource, payload: a
\* request with a valid key whose body names a resource the caller does not own
\* (or of another kind) and is also invalid is answered 404, not 400.
C24_NotFoundBeforeValidation ==
    [][\A p \in Requests, e \in Endpoints \ {"batch"} : \A x \in IngestInputs(e) :
          (/\ IngestStart(p, e, x.key, x.body, x.fault)
           /\ x.fault = "none"
           /\ GoodKey(x.key, now)
           /\ ~ResourceCheck(x.body.resourceId, ValidateApiKey(x.key, TRUE)[1], e)
           /\ ~SchemaParses(e, x.body))
          => answered'.code = 404]_vars

\* the website and network resources
CheckResources == {r \in ResourceIds : ResourceType(r) \in {"website", "network"}}

\* the (status, last_seen_at) pair of the sample of request p
PairOf(p) ==
    [status |-> IF req[p].metrics.available THEN "online" ELSE "offline",
     last_seen_at |-> req[p].timestamp]

\* C28: status and last_seen_at of a website or network resource come from the
\* same sample. Every update by a request writes that request's own derived
\* status and timestamp together, nothing else changes the pair, and so under
\* any interleaving of requests the stored pair is that of one stored sample,
\* the one whose update was applied last.
C28_PairWrittenTogether ==
    [][\A r \in CheckResources :
          /\ \A p \in Requests :
                (Updates(p) /\ req[p].resourceId = r) => resources'[r] = PairOf(p)
          /\ resources'[r] # resources[r]
             => \E p \in Requests : Updates(p) /\ req[p].resourceId = r]_vars

C28_PairOfOneSample ==
    \A r \in CheckResources :
        resources[r].last_seen_at # NULL =>
            \E m \in metrics :
                /\ m.resource_id = r /\ m.time = resources[r].last_seen_at[1]
                /\ resources[r].status
                     = IF m.values.available THEN "online" ELSE "offline"

C28_StatusAndLastSeenFromOneSample ==
    []C28_PairOfOneSample /\ C28_PairWrittenTogether

\* two requests for the same website in flight with different samples: the
\* one stored first has not written yet, the other's pair is stored
C28_Witness ==
    \E p \in Requests :
        /\ req[p].pc = "update" /\ req[p].resourceId = "rw"
        /\ resources["rw"].last_seen_at # NULL
        /\ resources["rw"].status # PairOf(p).status
        /\ resources["rw"].last_seen_at # PairOf(p).last_seen_at
        /\ \A m \in metrics : m.resource_id = "rw" /\ m.n = 1 => m.time = req[p].timestamp[1]

\* the step handles a message of the type on connection c
HeardStep(c, type) == out' # out /\ out'.conn = c /\ out'.msg.type = type

\* C26: at most one polling timer per topic. While a connection is open the
\* stream keys with a running timer are its subscription list, one timer each;
\* a subscribe for a topic already subscribed makes no timer and sends no
\* acknowledgement; an unsubscribe for a topic not subscribed changes nothing
\* and sends nothing.
C26_TimersAreSubscriptions ==
    \A c \in Conns :
        /\ \A t \in SubTopics : Cardinality(TimersOf(ws[c], t)) <= 1
        /\ ws[c].pc = "open" =>
              /\ ws[c].streamReaders = ws[c].subscriptions
              /\ {x[1] : x \in ws[c].timers} = ws[c].subscriptions

C26_RepeatsChangeNothing ==
    [][\A c \in Conns :
          /\ (HeardStep(c, "subscribe") /\ out'.msg.topic \in ws[c].subscriptions)
             => /\ out'.replies = <<>>
                /\ UNCHANGED <<ws, sent, redisVars>>
          /\ (HeardStep(c, "unsubscribe") /\ ws[c].authenticated
                 /\ out'.msg.topic \notin ws[c].subscriptions)
             => /\ out'.replies = <<>>
                /\ UNCHANGED <<ws, sent, redisVars>>
          /\ (HeardStep(c, "subscribe") /\ ws[c].authenticated
                 /\ out'.msg.topic \notin ws[c].subscriptions)
             => out'.replies = <<Control("subscribed", "", out'.msg.topic)>>]_vars

C26_OneTimerPerTopic == []C26_TimersAreSubscriptions /\ C26_RepeatsChangeNothing

\* a second subscribe for a topic has been handled and answered nothing, the
\* connection polling both topics
C26_Witness ==
    /\ out.msg.type = "subscribe" /\ out.replies = <<>>
    /\ ws[out.conn].pc = "open" /\ ws[out.conn].subscriptions = SubTopics
    /\ Cardinality(ws[out.conn].timers) = 2

\* C27 as stated: any message other than auth that arrives before a successful
\* auth is answered Not authenticated and closes the socket.
C27_AnyMessageRefused ==
    [][\A c \in Conns :
          (out' # out /\ out'.conn = c /\ out'.msg.type # "auth"
              /\ ~ws[c].authenticated)
          => out'.replies = NotAuthenticated /\ ws'[c].pc = "closed"]_vars

\* C27, amended: no subscription, timer or metric message exists on a
\* connection that has not authenticated. Before a successful auth, a subscribe,
\* unsubscribe or ping is answered Not authenticated and closes the socket; a
\* frame that does not parse is answered Invalid message format and leaves the
\* socket open and unauthenticated; an auth with an invalid token closes the
\* socket; a metric message is sent only on an authenticated connection.
C27_NothingBeforeAuth ==
    \A c \in Conns :
        ~ws[c].authenticated =>
            /\ ws[c].subscriptions = {} /\ ws[c].streamReaders = {}
            /\ ws[c].timers = {} /\ sent[c] = <<>>

C27_RefusedBeforeAuth ==
    [][\A c \in Conns :
          /\ (out' # out /\ out'.conn = c /\ ~ws[c].authenticated
                 /\ out'.msg.type \in {"subscribe", "unsubscribe", "ping"})
             => out'.replies = NotAuthenticated /\ ws'[c].pc = "closed"
          /\ (HeardStep(c, "malformed") /\ ~ws[c].authenticated)
             => /\ out'.replies = <<Control("error", "Invalid message format", NULL)>>
                /\ ws'[c] = ws[c]
          /\ (HeardStep(c, "auth") /\ JwtVerify(out'.msg.token) = NULL)
             => ws'[c].pc = "closed" /\ ws'[c].authenticated = ws[c].authenticated
          /\ (HeardStep(c, "auth") /\ JwtVerify(out'.msg.token) # NULL)
             => ws'[c].authenticated /\ ws'[c].pc = "open"
          /\ sent'[c] # sent[c] => ws[c].authenticated]_vars

C27_NoFeedBeforeAuth == []C27_NothingBeforeAuth /\ C27_RefusedBeforeAuth

\* an unauthenticated connection was refused a subscribe and is closed, with
\* a sample published to the topic meanwhile
C27_Witness ==
    /\ out.msg.type = "subscribe" /\ out.replies = NotAuthenticated
    /\ ws[out.conn].pc = "closed" /\ ~ws[out.conn].authenticated
    /\ streams[out.msg.topic] # <<>>

====
